---- MODULE Spec2Model ----
(***************************************************************************)
(* Model of alligator_strategy.py: the bar-by-bar scan of                  *)
(* backtest_strategy, the ledger writes of record_trade and the driver     *)
(* loop of main.                                                           *)
(*                                                                         *)
(* Numbers.  The program computes in IEEE doubles (numpy.float64 scalars   *)
(* read with .iat).  A number is modelled as an exact fraction n/d in      *)
(* lowest terms, d > 0; the three non-finite doubles are d = 0 with        *)
(* n = 1 (inf), n = -1 (-inf), n = 0 (nan).  numpy division by zero        *)
(* yields inf/nan (with a RuntimeWarning), it does not raise.              *)
(***************************************************************************)
EXTENDS Integers, Sequences, FiniteSets, TLC

(* ------------------------------- bounds -------------------------------- *)
MaxBars == 3
NumSymbols == 2

(* --------------------------- number helpers ---------------------------- *)
RECURSIVE GCD(_, _)
GCD(a, b) ==
    IF b = 0 THEN a ELSE GCD(b, a % b)

Abs(x) ==
    IF x < 0 THEN -x ELSE x

Sgn(x) ==
    IF x > 0 THEN 1 ELSE IF x < 0 THEN -1 ELSE 0

\* a float value n/d; d = 0 encodes inf / -inf / nan
R(n, d) ==
    IF d = 0 THEN [k |-> "float", n |-> Sgn(n), d |-> 0]
    ELSE LET g == GCD(Abs(n), Abs(d))
             s == Sgn(d)
         IN  [k |-> "float", n |-> (s * n) \div g, d |-> (s * d) \div g]

\* Python None, and the string 'None' that record_trade substitutes
None ==
    [k |-> "NoneType", n |-> 0, d |-> 1]

StrNone ==
    [k |-> "str", n |-> 0, d |-> 1]

IsNaN(a) ==
    a.d = 0 /\ a.n = 0

IsInf(a) ==
    a.d = 0 /\ a.n # 0

IsFinite(a) ==
    a.k = "float" /\ a.d > 0

\* float ==, <, <= : every comparison with nan is False
REq(a, b) ==
    ~IsNaN(a) /\ ~IsNaN(b) /\ a = b

RLt(a, b) ==
    /\ ~IsNaN(a)
    /\ ~IsNaN(b)
    /\ IF a.d = 0 /\ b.d = 0 THEN a.n < b.n ELSE a.n * b.d < b.n * a.d

RLe(a, b) ==
    RLt(a, b) \/ REq(a, b)

RNeg(a) ==
    [k |-> "float", n |-> -a.n, d |-> a.d]

RAbs(a) ==
    [k |-> "float", n |-> Abs(a.n), d |-> a.d]

RMul(a, b) ==
    R(a.n * b.n, a.d * b.d)

RDiv(a, b) ==
    IF IsNaN(a) \/ IsNaN(b) THEN R(0, 0)
    ELSE IF IsInf(a) /\ IsInf(b) THEN R(0, 0)
    ELSE R(a.n * b.d, a.d * b.n)

RAdd(a, b) ==
    IF IsNaN(a) \/ IsNaN(b) THEN R(0, 0)
    ELSE IF IsInf(a) THEN (IF IsInf(b) /\ b.n # a.n THEN R(0, 0) ELSE a)
    ELSE IF IsInf(b) THEN b
    ELSE R(a.n * b.d + b.n * a.d, a.d * b.d)

RSub(a, b) ==
    RAdd(a, RNeg(b))

\* Python's two-argument max / min (the first argument wins ties)
PyMax(a, b) ==
    IF RLt(a, b) THEN b ELSE a

PyMin(a, b) ==
    IF RLt(b, a) THEN b ELSE a

\* Python truthiness of a value used in "x or 'None'"
Truthy(x) ==
    x.k # "NoneType" /\ ~(x.k = "float" /\ x.n = 0 /\ x.d # 0)

\* position == 0 / position != 0 / > 0 / < 0 on a float
IsZero(a) ==
    a.n = 0 /\ a.d # 0

NonZero(a) ==
    ~IsZero(a)

IsPos(a) ==
    a.n > 0

IsNeg(a) ==
    a.n < 0

(* --------------------------- program constants ------------------------- *)
\* symbols of main, in order (a prefix of the list of six)
Symbols ==
    <<"BTC-USD", "ETH-USD", "XRP-USD", "AAPL", "MSTR", "NVDA">>

\* risk_per_trade = 0.03 (default argument of backtest_strategy)
RiskPerTrade ==
    R(3, 100)

\* initial_capital passed by main
MainCapital ==
    10000

\* values of initial_capital a direct caller of backtest_strategy may pass
Capitals ==
    {0, MainCapital}

\* download_data returns None for an empty frame: a scan has >= 1 bar
MinBars == 1

(* ------------------------------ bar inputs ----------------------------- *)
\* one row of the feature table: Close, ATR and Signal (as integers)
Closes ==
    {100, 104}

\* ATR values met at every close: mid/low regime (1) and high regime (3)
Atrs ==
    {1, 3}

\* ATR values met at close 100 only: no volatility (0), clamped factor (5)
EdgeAtrs ==
    {0, 5}

Signals ==
    {-1, 0, 1}

Bars ==
    [close : Closes, atr : Atrs, signal : Signals]
        \cup [close : {100}, atr : EdgeAtrs, signal : Signals]

\* the rows used under the driver loop of main
MainBars ==
    [close : {100, 104}, atr : {1}, signal : {0, 1}]

(* ------------------------ volatility regime ---------------------------- *)
VolatilityFactor(b) ==
    RDiv(R(b.atr, 1), R(b.close, 1))

\* variant: the low-volatility test is <= 0.01
StopMult_Le(vf) ==
    IF RLe(vf, R(1, 100)) THEN R(2, 1)
    ELSE IF RLt(R(2, 100), vf) THEN R(3, 2)
    ELSE R(7, 4)

StopMult(vf) ==
    IF RLt(vf, R(1, 100)) THEN R(2, 1)
    ELSE IF RLt(R(2, 100), vf) THEN R(3, 2)
    ELSE R(7, 4)

TpMult(vf) ==
    IF RLt(vf, R(1, 100)) THEN R(4, 1)
    ELSE IF RLt(R(2, 100), vf) THEN R(3, 1)
    ELSE R(7, 2)

StopLoss(b) ==
    RMul(R(b.atr, 1), StopMult(VolatilityFactor(b)))

TakeProfit(b) ==
    RMul(R(b.atr, 1), TpMult(VolatilityFactor(b)))

\* variant: the factor is not capped at 1.5
PositionSizeFactor_NoCap(b) ==
    PyMax(R(1, 2), RDiv(R(2, 100), VolatilityFactor(b)))

PositionSizeFactor(b) ==
    PyMax(R(1, 2), PyMin(R(3, 2), RDiv(R(2, 100), VolatilityFactor(b))))

\* the capital the entry is sized from
SizingCapital(cap, pf) ==
    R(cap, 1)

EntrySize(cap, pf, b) ==
    RDiv(RMul(RMul(SizingCapital(cap, pf), RiskPerTrade), PositionSizeFactor(b)),
         StopLoss(b))

(* ------------------------------ the ledger ----------------------------- *)
\* strftime of a pd.Timestamp: the ledger holds text, the trade list the stamp
Strftime(t) ==
    <<"%Y-%m-%d %H:%M:%S", t>>

OrNone(x) ==
    IF Truthy(x) THEN x ELSE StrNone

LedgerRow(t, sym, dir, entry, exit, profit, status) ==
    [timestamp |-> Strftime(t), symbol |-> sym, direction |-> dir,
     entry_price |-> entry, exit_price |-> OrNone(exit),
     profit |-> OrNone(profit), status |-> status]

\* variant: record_trade without the try / except
RecordTradeRaises_NoCatch(fail) ==
    fail

\* does record_trade let an exception escape when the write fails?
\* (the whole body is inside try / except Exception)
RecordTradeRaises(fail) ==
    FALSE

\* the trades table after record_trade
RecordTrade(led, row, fail) ==
    IF fail THEN led ELSE Append(led, row)

(* --------------------------- the trade list ---------------------------- *)
NewTrade(t, sym, dir, entry) ==
    [timestamp |-> t, symbol |-> sym, direction |-> dir, entry_price |-> entry,
     exit_price |-> None, profit |-> None, status |-> "Open"]

\* trades[-1].update({'exit_price': .., 'profit': .., 'status': 'Closed'})
UpdateLast(trs, exit, profit) ==
    [trs EXCEPT ![Len(trs)] =
        [@ EXCEPT !.exit_price = exit, !.profit = profit, !.status = "Closed"]]

(* ----------------------- backtest_strategy: one bar -------------------- *)
\* The locals of backtest_strategy as a record; "write" is the ledger row
\* handed to record_trade on this bar (<<>> when there is none).
FreshRun(cap) ==
    [pc |-> "loop", position |-> R(0, 1), portfolio |-> R(cap, 1),
     entry_price |-> R(0, 1), trailing_stop |-> R(0, 1), trades |-> <<>>,
     position_size_factor |-> None, atr |-> None, stop_loss |-> None,
     take_profit |-> None, write |-> <<>>]

\* variant: the ratchet assigns the new level without max / min
Ratchet_NoMax(s, b) ==
    LET exit_price == R(b.close, 1)
        atr == R(b.atr, 1)
    IN  IF IsPos(s.position) /\ RLt(RAdd(s.entry_price, atr), exit_price)
        THEN RSub(exit_price, RMul(atr, R(3, 2)))
        ELSE IF IsNeg(s.position) /\ RLt(exit_price, RSub(s.entry_price, atr))
        THEN RAdd(exit_price, RMul(atr, R(3, 2)))
        ELSE s.trailing_stop

\* trailing stop after the ratchet of an exit-branch bar
Ratchet(s, b) ==
    LET exit_price == R(b.close, 1)
        atr == R(b.atr, 1)
    IN  IF IsPos(s.position) /\ RLt(RAdd(s.entry_price, atr), exit_price)
        THEN PyMax(s.trailing_stop, RSub(exit_price, RMul(atr, R(3, 2))))
        ELSE IF IsNeg(s.position) /\ RLt(exit_price, RSub(s.entry_price, atr))
        THEN PyMin(s.trailing_stop, RAdd(exit_price, RMul(atr, R(3, 2))))
        ELSE s.trailing_stop

\* variant: the take-profit test of a Long is strict
CloseLong_Strict(s, b, ts) ==
    LET exit_price == R(b.close, 1)
    IN  /\ IsPos(s.position)
        /\ \/ RLt(RAdd(s.entry_price, TakeProfit(b)), exit_price)
           \/ RLe(exit_price, ts)

CloseLong(s, b, ts) ==
    LET exit_price == R(b.close, 1)
    IN  /\ IsPos(s.position)
        /\ \/ RLe(RAdd(s.entry_price, TakeProfit(b)), exit_price)
           \/ RLe(exit_price, ts)

CloseShort(s, b, ts) ==
    LET exit_price == R(b.close, 1)
    IN  /\ IsNeg(s.position)
        /\ \/ RLe(exit_price, RSub(s.entry_price, TakeProfit(b)))
           \/ RLe(ts, exit_price)

LongProfit(s, exit_price) ==
    RMul(RSub(exit_price, s.entry_price), s.position)

\* variant: the Short profit multiplies by the signed position
ShortProfit_Signed(s, exit_price) ==
    RMul(RSub(s.entry_price, exit_price), s.position)

ShortProfit(s, exit_price) ==
    RMul(RSub(s.entry_price, exit_price), RAbs(s.position))

\* variant: the realized profit is not added to the portfolio
AddProfit_Dropped(pf, profit) ==
    pf

\* portfolio += profit
AddProfit(pf, profit) ==
    RAdd(pf, profit)

\* variant: the Long test reads Signal >= 0
LongEntry_Ge(sig, pos) ==
    sig >= 0 /\ IsZero(pos)

\* variant: the Long entry does not test position == 0
LongEntry_AnyPosition(sig, pos) ==
    sig = 1

\* data['Signal'].iat[i] == 1 and position == 0 (and the Short twin)
LongEntry(sig, pos) ==
    sig = 1 /\ IsZero(pos)

\* variant: the Short entry does not test position == 0
ShortEntry_AnyPosition(sig, pos) ==
    sig = -1

ShortEntry(sig, pos) ==
    sig = -1 /\ IsZero(pos)

\* body of the for loop for row b with index t; "raised" tells whether the
\* record_trade call of this bar lets an exception escape
ScanBar(s, b, sym, t, raised, cap) ==
    LET close == R(b.close, 1)
        atr == R(b.atr, 1)
        s0 == [s EXCEPT !.atr = atr, !.stop_loss = StopLoss(b),
                        !.take_profit = TakeProfit(b), !.write = <<>>]
    IN
    IF LongEntry(b.signal, s.position) THEN
        LET s1 == [s0 EXCEPT !.position_size_factor = PositionSizeFactor(b),
                             !.position = EntrySize(cap, s.portfolio, b),
                             !.entry_price = close,
                             !.trailing_stop = RSub(close, atr),
                             !.write = <<LedgerRow(t, sym, "Long", close, None, None, "Open")>>]
        IN  IF raised THEN [s1 EXCEPT !.pc = "raised"]
            ELSE [s1 EXCEPT !.trades = Append(@, NewTrade(t, sym, "Long", close))]
    ELSE IF ShortEntry(b.signal, s.position) THEN
        LET s1 == [s0 EXCEPT !.position_size_factor = PositionSizeFactor(b),
                             !.position = RNeg(EntrySize(cap, s.portfolio, b)),
                             !.entry_price = close,
                             !.trailing_stop = RAdd(close, atr),
                             !.write = <<LedgerRow(t, sym, "Short", close, None, None, "Open")>>]
        IN  IF raised THEN [s1 EXCEPT !.pc = "raised"]
            ELSE [s1 EXCEPT !.trades = Append(@, NewTrade(t, sym, "Short", close))]
    ELSE IF NonZero(s.position) THEN
        LET ts == Ratchet(s, b)
            s1 == [s0 EXCEPT !.trailing_stop = ts]
        IN  IF CloseLong(s, b, ts) THEN
                LET profit == LongProfit(s, close)
                    s2 == [s1 EXCEPT !.write = <<LedgerRow(t, sym, "Long", s.entry_price,
                                                          close, profit, "Closed")>>]
                IN  IF raised THEN [s2 EXCEPT !.pc = "raised"]
                    ELSE [s2 EXCEPT !.portfolio = AddProfit(@, profit),
                                    !.position = R(0, 1),
                                    !.trades = UpdateLast(@, close, profit)]
            ELSE IF CloseShort(s, b, ts) THEN
                LET profit == ShortProfit(s, close)
                    s2 == [s1 EXCEPT !.write = <<LedgerRow(t, sym, "Short", s.entry_price,
                                                          close, profit, "Closed")>>]
                IN  IF raised THEN [s2 EXCEPT !.pc = "raised"]
                    ELSE [s2 EXCEPT !.portfolio = AddProfit(@, profit),
                                    !.position = R(0, 1),
                                    !.trades = UpdateLast(@, close, profit)]
            ELSE s1
    ELSE s0

\* code after the loop: forced closure at the last close, then return
ForcedClosure(s, last, sym, t, raised) ==
    LET s0 == [s EXCEPT !.write = <<>>]
    IN
    IF NonZero(s.position) THEN
        LET exit_price == R(last, 1)
            profit == IF IsPos(s.position) THEN LongProfit(s, exit_price)
                      ELSE ShortProfit(s, exit_price)
            dir == s.trades[Len(s.trades)].direction
            s1 == [s0 EXCEPT !.portfolio = AddProfit(@, profit),
                             !.trades = UpdateLast(@, exit_price, profit),
                             !.write = <<LedgerRow(t, sym, dir, s.entry_price,
                                                   exit_price, profit, "Closed")>>]
        IN  IF raised THEN [s1 EXCEPT !.pc = "raised"] ELSE [s1 EXCEPT !.pc = "done"]
    ELSE [s0 EXCEPT !.pc = "done"]

(* --------------------------- generate_signals -------------------------- *)
NaN ==
    R(0, 0)

\* values of one feature row, chosen around the thresholds of the conditions
FeatureRows ==
    [Lips : {NaN, R(1, 1), R(2, 1), R(3, 1)}, Teeth : {R(2, 1)},
     Jaw : {R(1, 1), R(2, 1), R(3, 1)}, Close : {R(0, 1), R(2, 1), R(4, 1)},
     ADX : {R(30, 1), R(31, 1)},
     CMO : {R(-41, 1), R(-40, 1), R(40, 1), R(41, 1)},
     Stoch_RSI : {R(39, 1), R(40, 1), R(60, 1), R(61, 1)},
     Volume_Change : {R(-1, 10), R(0, 1), R(1, 10)}, EMA_50 : {R(2, 1)},
     MACD : {R(0, 1), R(1, 1), R(2, 1)}, MACD_signal : {R(1, 1)}]

NoRow ==
    [Lips |-> NaN, Teeth |-> NaN, Jaw |-> NaN, Close |-> NaN, ADX |-> NaN,
     CMO |-> NaN, Stoch_RSI |-> NaN, Volume_Change |-> NaN, EMA_50 |-> NaN,
     MACD |-> NaN, MACD_signal |-> NaN]

\* variant: the trend-strength test of the Long condition reads ADX >= 30
LongCondition_AdxGe(r) ==
    /\ RLt(r.Teeth, r.Lips)
    /\ RLt(r.Jaw, r.Teeth)
    /\ RLt(r.Lips, r.Close)
    /\ RLe(R(30, 1), r.ADX)
    /\ RLt(R(40, 1), r.CMO)
    /\ RLt(R(60, 1), r.Stoch_RSI)
    /\ RLt(R(0, 1), r.Volume_Change)
    /\ RLt(r.EMA_50, r.Close)
    /\ RLt(r.MACD_signal, r.MACD)

LongCondition(r) ==
    /\ RLt(r.Teeth, r.Lips)
    /\ RLt(r.Jaw, r.Teeth)
    /\ RLt(r.Lips, r.Close)
    /\ RLt(R(30, 1), r.ADX)
    /\ RLt(R(40, 1), r.CMO)
    /\ RLt(R(60, 1), r.Stoch_RSI)
    /\ RLt(R(0, 1), r.Volume_Change)
    /\ RLt(r.EMA_50, r.Close)
    /\ RLt(r.MACD_signal, r.MACD)

ShortCondition(r) ==
    /\ RLt(r.Lips, r.Teeth)
    /\ RLt(r.Teeth, r.Jaw)
    /\ RLt(r.Close, r.Lips)
    /\ RLt(R(30, 1), r.ADX)
    /\ RLt(r.CMO, R(-40, 1))
    /\ RLt(r.Stoch_RSI, R(40, 1))
    /\ RLt(r.Volume_Change, R(0, 1))
    /\ RLt(r.Close, r.EMA_50)
    /\ RLt(r.MACD, r.MACD_signal)

\* data['Signal'] = 0, then the Long write, then the Short write
GenerateSignal(r) ==
    LET s0 == 0
        s1 == IF LongCondition(r) THEN 1 ELSE s0
    IN  IF ShortCondition(r) THEN -1 ELSE s1

(* -------------------------------- state -------------------------------- *)
VARIABLES
    pc,                    \* "main", "loop", "done", "raised", "exit",
                           \* "signals", "signalled"
    row,                   \* the feature row handed to generate_signals
    Signal,                \* data['Signal'] of that row
    symIdx,                \* index of the symbol main is working on
    errors,                \* symbols main reported "No Data available" for
    results,               \* FINAL RESULTS lines logged by main
    outcome,               \* what the last download_data call ran into
    initial_capital,       \* argument of backtest_strategy
    i,                     \* number of rows scanned so far
    lastClose,             \* Close of the row scanned last (data['Close'].iat[-1])
    position, portfolio, entry_price, trailing_stop, trades,
    position_size_factor, atr, stop_loss, take_profit,
    ledger,                \* rows of the trades table of trades.db
    calls,                 \* record_trade calls made by the current run
    sawSignal,             \* some scanned row of this run had Signal # 0
    ref                    \* the same run on the same rows, no write failing

vars ==
    <<pc, row, Signal, symIdx, errors, results, outcome, initial_capital, i,
      lastClose, position,
      portfolio, entry_price, trailing_stop, trades, position_size_factor,
      atr, stop_loss, take_profit, ledger, calls, sawSignal, ref>>

mainVars ==
    <<symIdx, errors, results, outcome>>

sigVars ==
    <<row, Signal>>

\* the locals of the running backtest_strategy call as one record
Cur ==
    [pc |-> pc, position |-> position, portfolio |-> portfolio,
     entry_price |-> entry_price, trailing_stop |-> trailing_stop,
     trades |-> trades, position_size_factor |-> position_size_factor,
     atr |-> atr, stop_loss |-> stop_loss, take_profit |-> take_profit,
     write |-> <<>>]

SetRun(s) ==
    /\ pc' = s.pc
    /\ position' = s.position
    /\ portfolio' = s.portfolio
    /\ entry_price' = s.entry_price
    /\ trailing_stop' = s.trailing_stop
    /\ trades' = s.trades
    /\ position_size_factor' = s.position_size_factor
    /\ atr' = s.atr
    /\ stop_loss' = s.stop_loss
    /\ take_profit' = s.take_profit

\* variant: the portfolio of the previous call is carried into the next one
StartRun_CarryPortfolio(cap, prev) ==
    [FreshRun(cap) EXCEPT !.portfolio = prev.portfolio]

\* the locals a call starts from; prev (the locals of the call before) is
\* not read
StartRun(cap, prev) ==
    FreshRun(cap)

\* entry of backtest_strategy: conn, position, portfolio, trades, ...
EnterBacktest(cap) ==
    /\ SetRun(StartRun(cap, Cur))
    /\ initial_capital' = cap
    /\ i' = 0
    /\ lastClose' = 0
    /\ calls' = 0
    /\ sawSignal' = FALSE
    /\ ref' = FreshRun(cap)

\* a direct call of backtest_strategy on a fresh database
Init ==
    /\ row = NoRow
    /\ Signal = 0
    /\ symIdx = 1
    /\ errors = <<>>
    /\ results = <<>>
    /\ outcome = "ok"
    /\ ledger = <<>>
    /\ \E cap \in Capitals :
        /\ initial_capital = cap
        /\ pc = "loop"
        /\ position = FreshRun(cap).position
        /\ portfolio = FreshRun(cap).portfolio
        /\ entry_price = FreshRun(cap).entry_price
        /\ trailing_stop = FreshRun(cap).trailing_stop
        /\ trades = <<>>
        /\ position_size_factor = None
        /\ atr = None
        /\ stop_loss = None
        /\ take_profit = None
        /\ ref = FreshRun(cap)
    /\ i = 0
    /\ lastClose = 0
    /\ calls = 0
    /\ sawSignal = FALSE

\* main after initialize_db, before the first symbol
InitMain ==
    /\ pc = "main"
    /\ row = NoRow
    /\ Signal = 0
    /\ symIdx = 1
    /\ errors = <<>>
    /\ results = <<>>
    /\ outcome = "none"
    /\ ledger = <<>>
    /\ initial_capital = MainCapital
    /\ position = R(0, 1)
    /\ portfolio = R(MainCapital, 1)
    /\ entry_price = R(0, 1)
    /\ trailing_stop = R(0, 1)
    /\ trades = <<>>
    /\ position_size_factor = None
    /\ atr = None
    /\ stop_loss = None
    /\ take_profit = None
    /\ ref = FreshRun(MainCapital)
    /\ i = 0
    /\ lastClose = 0
    /\ calls = 0
    /\ sawSignal = FALSE

(* ------------------------------- actions ------------------------------- *)
\* one iteration of the for loop, on a row drawn from BS; fail (drawn from
\* FS) = the ledger write of this bar, if any, fails inside record_trade
ScanStep(BS, FS) ==
    /\ pc = "loop"
    /\ i < MaxBars
    /\ \E b \in BS :
       \E ok \in {ScanBar(Cur, b, Symbols[symIdx], i, FALSE, initial_capital)} :
       \E fail \in (IF ok.write = <<>> THEN {FALSE} ELSE FS) :
       \E s2 \in {IF RecordTradeRaises(fail)
                  THEN ScanBar(Cur, b, Symbols[symIdx], i, TRUE, initial_capital)
                  ELSE ok} :
            /\ SetRun(s2)
            /\ lastClose' = b.close
            /\ i' = i + 1
            /\ sawSignal' = (sawSignal \/ b.signal # 0)
            /\ calls' = calls + Len(s2.write)
            /\ ledger' = IF s2.write = <<>> THEN ledger
                         ELSE RecordTrade(ledger, s2.write[1], fail)
            /\ ref' = ScanBar(ref, b, Symbols[symIdx], i, RecordTradeRaises(FALSE),
                              initial_capital)
    /\ UNCHANGED <<mainVars, sigVars, initial_capital>>

Scan ==
    ScanStep(Bars, BOOLEAN)

ScanMain ==
    ScanStep(MainBars, {FALSE})

\* end of the rows: forced closure, conn.close(), return trades, portfolio
FinishStep(FS) ==
    /\ pc = "loop"
    /\ i >= MinBars
    /\ \E ok \in {ForcedClosure(Cur, lastClose, Symbols[symIdx], i - 1, FALSE)} :
       \E fail \in (IF ok.write = <<>> THEN {FALSE} ELSE FS) :
       \E s2 \in {IF RecordTradeRaises(fail)
                  THEN ForcedClosure(Cur, lastClose, Symbols[symIdx], i - 1, TRUE)
                  ELSE ok} :
            /\ SetRun(s2)
            /\ calls' = calls + Len(s2.write)
            /\ ledger' = IF s2.write = <<>> THEN ledger
                         ELSE RecordTrade(ledger, s2.write[1], fail)
            /\ ref' = ForcedClosure(ref, lastClose, Symbols[symIdx], i - 1,
                                    RecordTradeRaises(FALSE))
    /\ UNCHANGED <<mainVars, sigVars, initial_capital, i, lastClose, sawSignal>>

Finish ==
    FinishStep(BOOLEAN)

FinishMain ==
    FinishStep({FALSE})

\* main: download_data for the next symbol; None unless outcome = "ok"
DownloadOutcomes ==
    {"ok", "empty", "missing_columns", "exception"}

\* variant: the missing-columns check does not return None
DownloadData_NoColumnCheck(o) ==
    IF o \in {"ok", "missing_columns"} THEN "data" ELSE "None"

DownloadData(o) ==
    IF o = "ok" THEN "data" ELSE "None"

Download ==
    /\ pc = "main"
    /\ symIdx <= NumSymbols
    /\ \E o \in DownloadOutcomes :
        /\ outcome' = o
        /\ IF DownloadData(o) # "None"
           THEN /\ EnterBacktest(MainCapital)
                /\ UNCHANGED <<symIdx, errors, results, ledger, sigVars>>
           ELSE /\ errors' = Append(errors, Symbols[symIdx])
                /\ symIdx' = symIdx + 1
                /\ pc' = IF symIdx + 1 > NumSymbols THEN "exit" ELSE "main"
                /\ UNCHANGED <<results, initial_capital, i, lastClose, position,
                               portfolio, entry_price, trailing_stop, trades,
                               position_size_factor, atr, stop_loss, take_profit,
                               ledger, calls, sawSignal, ref, sigVars>>

\* main: log FINAL RESULTS of the finished run and go to the next symbol
Report ==
    /\ pc = "done"
    /\ results' = Append(results, [symbol |-> Symbols[symIdx],
                                   total_trades |-> Len(trades),
                                   portfolio |-> portfolio])
    /\ symIdx' = symIdx + 1
    /\ pc' = IF symIdx + 1 > NumSymbols THEN "exit" ELSE "main"
    /\ UNCHANGED <<errors, outcome, initial_capital, i, lastClose, position, portfolio,
                   entry_price, trailing_stop, trades, position_size_factor,
                   atr, stop_loss, take_profit, ledger, calls, sawSignal, ref,
                   sigVars>>

Next ==
    \/ Scan
    \/ Finish

Spec ==
    Init /\ [][Next]_vars

NextMain ==
    \/ Download
    \/ ScanMain
    \/ FinishMain
    \/ Report

SpecMain ==
    InitMain /\ [][NextMain]_vars

\* the regime computation at the head of the loop body on one row
RegimeCloses ==
    {50, 100, 104, 150, 200, 400}

RegimeAtrs ==
    {0, 1, 2, 3, 4, 5, 6, 8, 9, 10}

InitRegime ==
    /\ pc = "regime"
    /\ lastClose \in RegimeCloses
    /\ atr \in {R(a, 1) : a \in RegimeAtrs}
    /\ row = NoRow
    /\ Signal = 0
    /\ symIdx = 1
    /\ errors = <<>>
    /\ results = <<>>
    /\ outcome = "ok"
    /\ ledger = <<>>
    /\ initial_capital = MainCapital
    /\ position = R(0, 1)
    /\ portfolio = R(MainCapital, 1)
    /\ entry_price = R(0, 1)
    /\ trailing_stop = R(0, 1)
    /\ trades = <<>>
    /\ position_size_factor = None
    /\ stop_loss = None
    /\ take_profit = None
    /\ ref = FreshRun(MainCapital)
    /\ i = 0
    /\ calls = 0
    /\ sawSignal = FALSE

ComputeRegime ==
    /\ pc = "regime"
    /\ \E b \in {[close |-> lastClose, atr |-> atr.n, signal |-> 0]} :
        /\ stop_loss' = StopLoss(b)
        /\ take_profit' = TakeProfit(b)
    /\ pc' = "regime_done"
    /\ UNCHANGED <<mainVars, sigVars, initial_capital, i, lastClose, position,
                   portfolio, entry_price, trailing_stop, trades,
                   position_size_factor, atr, ledger, calls, sawSignal, ref>>

NextRegime ==
    ComputeRegime

SpecRegime ==
    InitRegime /\ [][NextRegime]_vars

\* generate_signals on one feature row (the column is computed row by row)
InitSignals ==
    /\ pc = "signals"
    /\ row \in FeatureRows
    /\ Signal = 0
    /\ symIdx = 1
    /\ errors = <<>>
    /\ results = <<>>
    /\ outcome = "ok"
    /\ ledger = <<>>
    /\ initial_capital = MainCapital
    /\ position = R(0, 1)
    /\ portfolio = R(MainCapital, 1)
    /\ entry_price = R(0, 1)
    /\ trailing_stop = R(0, 1)
    /\ trades = <<>>
    /\ position_size_factor = None
    /\ atr = None
    /\ stop_loss = None
    /\ take_profit = None
    /\ ref = FreshRun(MainCapital)
    /\ i = 0
    /\ lastClose = 0
    /\ calls = 0
    /\ sawSignal = FALSE

GenerateSignals ==
    /\ pc = "signals"
    /\ Signal' = GenerateSignal(row)
    /\ pc' = "signalled"
    /\ UNCHANGED <<row, mainVars, initial_capital, i, lastClose, position, portfolio,
                   entry_price, trailing_stop, trades, position_size_factor,
                   atr, stop_loss, take_profit, ledger, calls, sawSignal, ref>>

NextSignals ==
    GenerateSignals

SpecSignals ==
    InitSignals /\ [][NextSignals]_vars

(* ------------------------------ properties ----------------------------- *)
OpenIdx(trs) ==
    {k \in 1..Len(trs) : trs[k].status = "Open"}

ClosedIdx(trs) ==
    {k \in 1..Len(trs) : trs[k].status = "Closed"}

\* initial capital plus the profits of the Closed trades, in list order
RECURSIVE CapitalPlusClosed(_, _, _)
CapitalPlusClosed(acc, trs, k) ==
    IF k > Len(trs) THEN acc
    ELSE CapitalPlusClosed(IF trs[k].status = "Closed" THEN RAdd(acc, trs[k].profit)
                           ELSE acc, trs, k + 1)

\* clamp(x, lo, hi) as the specification writes it
Clamp(x, lo, hi) ==
    IF RLt(x, lo) THEN lo ELSE IF RLt(hi, x) THEN hi ELSE x

\* a step of the scan that opened a trade
EntryStep ==
    pc = "loop" /\ i' = i + 1 /\ Len(trades') = Len(trades) + 1

\* C1: during the scan the trade list holds at most one Open trade, and it
\* holds one exactly when the position is non-Flat (position != 0).
C1_AtMostOneOpen ==
    pc = "loop" =>
        /\ Cardinality(OpenIdx(trades)) <= 1
        /\ (Cardinality(OpenIdx(trades)) = 1) <=> NonZero(position)

\* C2: a finished run returns a trade list in which every trade is Closed
\* (no position is left open at the end).
C2_EndsFlatAllClosed ==
    pc = "done" => OpenIdx(trades) = {}

\* C3: while the run is going and when it has returned, the portfolio is the
\* initial capital plus the profits of the Closed trades; and any step that
\* changes the portfolio closes exactly one more trade.
C3_Conservation ==
    /\ [](pc \in {"loop", "done"} =>
            portfolio = CapitalPlusClosed(R(initial_capital, 1), trades, 1))
    /\ [][portfolio' # portfolio =>
            Cardinality(ClosedIdx(trades')) = Cardinality(ClosedIdx(trades)) + 1]_vars

C3_Witness ==
    /\ pc = "done"
    /\ Len(trades) >= 2
    /\ \A k \in 1..Len(trades) : trades[k].status = "Closed" /\ IsFinite(trades[k].profit)
    /\ IsNeg(trades[1].profit)
    /\ portfolio # R(initial_capital, 1)

\* C4: on every entry the size is (running capital x risk_per_trade x
\* position_size_factor) / stop_loss_distance, the running capital being the
\* portfolio value at the time of the entry (stated for entries on a bar
\* with ATR > 0 made with a finite portfolio value).
C4_SizedFromRunningCapital ==
    [][(EntryStep /\ IsFinite(portfolio) /\ RLt(R(0, 1), atr')) =>
        RAbs(position') = RDiv(RMul(RMul(portfolio, RiskPerTrade),
                                    position_size_factor'), stop_loss')]_vars

\* C5: a scanned bar with ATR <= 0 opens no position: the trade list does not
\* grow, a Flat position stays as it is, and the scan goes on.
C5_NonPositiveAtrSkipsSizing ==
    [][(pc = "loop" /\ i' = i + 1 /\ RLe(atr', R(0, 1))) =>
        /\ pc' = "loop"
        /\ Len(trades') = Len(trades)
        /\ (IsZero(position) => position' = position)]_vars

\* C6: whatever ledger writes fail, the run is never aborted and its trade
\* list, portfolio and progress are those of the run on the same rows in
\* which no write fails.
C6_WriteFailureTransparent ==
    /\ pc # "raised"
    /\ pc = ref.pc
    /\ trades = ref.trades
    /\ portfolio = ref.portfolio

C6_Witness ==
    /\ pc = "done"
    /\ calls >= 2
    /\ Len(ledger) < calls
    /\ Len(trades) >= 1

\* C7: a bar scanned while the position is Long never lowers trailing_stop,
\* one scanned while it is Short never raises it; the stop starts at
\* entry_price - ATR for a Long entry and entry_price + ATR for a Short one.
C7_TrailingStopMonotone ==
    [][(pc = "loop" /\ i' = i + 1) =>
        /\ IsPos(position) => RLe(trailing_stop, trailing_stop')
        /\ IsNeg(position) => RLe(trailing_stop', trailing_stop)
        /\ (EntryStep /\ IsPos(position')) => trailing_stop' = RSub(entry_price', atr')
        /\ (EntryStep /\ IsNeg(position')) => trailing_stop' = RAdd(entry_price', atr')]_vars

C7_Witness ==
    /\ pc = "loop"
    /\ IsPos(position)
    /\ IsFinite(position)
    /\ entry_price = R(100, 1)
    /\ trailing_stop = R(199, 2)

\* C8: on every entry position_size_factor is clamp(0.02 / (ATR / close),
\* 0.5, 1.5) for the entry bar and lies in [0.5, 1.5].
C8_SizeFactorInRange ==
    [][EntryStep =>
        /\ position_size_factor' =
              Clamp(RDiv(R(2, 100), RDiv(atr', R(lastClose', 1))), R(1, 2), R(3, 2))
        /\ RLe(R(1, 2), position_size_factor')
        /\ RLe(position_size_factor', R(3, 2))]_vars

C8_Witness ==
    /\ pc = "loop"
    /\ position_size_factor = R(1, 2)
    /\ NonZero(position)

\* C9: as long as no scanned row carried a Long or Short signal, the run has
\* no trade, has called record_trade never, has left the ledger alone and
\* holds (and returns) exactly initial_capital.
C9_NoSignalNoTrades ==
    (pc \in {"loop", "done"} /\ ~sawSignal) =>
        /\ trades = <<>>
        /\ calls = 0
        /\ ledger = <<>>
        /\ portfolio = R(initial_capital, 1)
        /\ IsZero(position)

C9_Witness ==
    /\ pc = "done"
    /\ ~sawSignal
    /\ i >= 3
    /\ atr = R(0, 1)

\* C10: when download_data comes back without data (empty frame, missing
\* columns or an exception), main does not enter the scan for that symbol,
\* changes neither trade list nor ledger nor results, reports the symbol as
\* having no data and moves to the next symbol.
C10_NoDataSkipsSymbol ==
    [][(pc = "main" /\ outcome' # "ok") =>
        /\ pc' \in {"main", "exit"}
        /\ symIdx' = symIdx + 1
        /\ errors' = Append(errors, Symbols[symIdx])
        /\ trades' = trades
        /\ ledger' = ledger
        /\ results' = results
        /\ i' = i]_vars

C10_Witness ==
    /\ Len(errors) >= 1
    /\ errors[1] = Symbols[1]
    /\ Len(results) >= 1
    /\ results[1].symbol = Symbols[2]

\* the nine Long and nine Short conditions as the specification lists them
\* (a comparison with a missing value is false)
Gt(a, b) ==
    a.d # 0 /\ b.d # 0 /\ a.n * b.d > b.n * a.d

SpecLong(r) ==
    /\ Gt(r.Lips, r.Teeth) /\ Gt(r.Teeth, r.Jaw) /\ Gt(r.Close, r.Lips)
    /\ Gt(r.ADX, R(30, 1)) /\ Gt(r.CMO, R(40, 1)) /\ Gt(r.Stoch_RSI, R(60, 1))
    /\ Gt(r.Volume_Change, R(0, 1)) /\ Gt(r.Close, r.EMA_50)
    /\ Gt(r.MACD, r.MACD_signal)

SpecShort(r) ==
    /\ Gt(r.Teeth, r.Lips) /\ Gt(r.Jaw, r.Teeth) /\ Gt(r.Lips, r.Close)
    /\ Gt(r.ADX, R(30, 1)) /\ Gt(R(-40, 1), r.CMO) /\ Gt(R(40, 1), r.Stoch_RSI)
    /\ Gt(R(0, 1), r.Volume_Change) /\ Gt(r.EMA_50, r.Close)
    /\ Gt(r.MACD_signal, r.MACD)

\* C11: the signal written for a row is 1 exactly when the nine Long
\* conditions hold, -1 exactly when the nine Short conditions hold and 0
\* otherwise; the two sets of conditions never hold together.
C11_SignalMatchesConditions ==
    pc = "signalled" =>
        /\ Signal \in {-1, 0, 1}
        /\ (Signal = 1) <=> SpecLong(row)
        /\ (Signal = -1) <=> SpecShort(row)
        /\ ~(SpecLong(row) /\ SpecShort(row))
        /\ ~(LongCondition(row) /\ ShortCondition(row))

C11_Witness ==
    /\ pc = "signalled"
    /\ Signal = 1
    /\ row.ADX = R(31, 1)
    /\ row.CMO = R(41, 1)

\* C12: under main every call of backtest_strategy starts Flat, with an empty
\* trade list and portfolio = initial_capital, and its trade list, position
\* and portfolio are at every point those of the same rows run on their own,
\* whatever the symbols before it did.
C12_RunsIndependent ==
    /\ [](pc \in {"loop", "done"} =>
            /\ trades = ref.trades
            /\ portfolio = ref.portfolio
            /\ position = ref.position)
    /\ [][(pc = "main" /\ pc' = "loop") =>
            /\ portfolio' = R(initial_capital', 1)
            /\ IsZero(position')
            /\ trades' = <<>>]_vars

C12_Witness ==
    /\ pc = "done"
    /\ symIdx = 2
    /\ Len(results) = 1
    /\ results[1].portfolio # R(MainCapital, 1)
    /\ results[1].total_trades >= 1
    /\ Len(trades) >= 1
    /\ portfolio # R(MainCapital, 1)

\* a scan step made while the position is non-Flat (the exit branch)
HeldStep ==
    pc = "loop" /\ i' = i + 1 /\ NonZero(position)

\* the trade that was open before the step is Closed after it
ClosedOnStep ==
    /\ Len(trades') = Len(trades)
    /\ Len(trades) >= 1
    /\ trades[Len(trades)].status = "Open"
    /\ trades'[Len(trades)].status = "Closed"

\* the trailing stop after this bar's ratchet, as the specification writes it
SpecRatchet(pos, entry, ts, close, a) ==
    IF IsPos(pos) /\ Gt(close, RAdd(entry, a))
    THEN (IF Gt(RSub(close, RMul(R(3, 2), a)), ts)
          THEN RSub(close, RMul(R(3, 2), a)) ELSE ts)
    ELSE IF IsNeg(pos) /\ Gt(RSub(entry, a), close)
    THEN (IF Gt(ts, RAdd(close, RMul(R(3, 2), a)))
          THEN RAdd(close, RMul(R(3, 2), a)) ELSE ts)
    ELSE ts

\* take-profit distance of a bar: ATR times the multiplier of its regime
SpecTakeProfit(a, close) ==
    LET vf == RDiv(a, close)
    IN  IF Gt(R(1, 100), vf) THEN RMul(a, R(4, 1))
        ELSE IF Gt(vf, R(2, 100)) THEN RMul(a, R(3, 1))
        ELSE RMul(a, R(7, 2))

\* C13: on a bar scanned while a position is held, trailing_stop becomes the
\* ratcheted value, and the trade is closed on that bar exactly when, with
\* that ratcheted stop and the take-profit distance of this bar's ATR, the
\* close has reached entry_price + take_profit or the stop (Long), or
\* entry_price - take_profit or the stop (Short).
C13_ExitIffTest ==
    [][HeldStep =>
        LET close == R(lastClose', 1)
            tp == SpecTakeProfit(atr', close)
            ts == SpecRatchet(position, entry_price, trailing_stop, close, atr')
        IN  /\ trailing_stop' = ts
            /\ take_profit' = tp
            /\ entry_price' = entry_price
            /\ IsPos(position) =>
                 (ClosedOnStep <=> (~Gt(RAdd(entry_price, tp), close) \/ ~Gt(close, ts)))
            /\ IsNeg(position) =>
                 (ClosedOnStep <=> (~Gt(close, RSub(entry_price, tp)) \/ ~Gt(ts, close)))
            /\ ClosedOnStep <=> IsZero(position')]_vars

\* a Long entered at 100 was closed at 104 on a bar with ATR 1: the ratchet
\* raised the stop to 102.5 and this bar's take-profit distance (4) was reached
C13_Witness ==
    /\ pc = "loop"
    /\ Len(trades) >= 1
    /\ trades[Len(trades)].status = "Closed"
    /\ trades[Len(trades)].direction = "Long"
    /\ trades[Len(trades)].entry_price = R(100, 1)
    /\ trades[Len(trades)].exit_price = R(104, 1)
    /\ IsFinite(trades[Len(trades)].profit)
    /\ take_profit = R(4, 1)
    /\ trailing_stop = R(205, 2)
    /\ IsZero(position)
    /\ i >= 3

\* a step of the scan (one bar)
BarStep ==
    pc = "loop" /\ i' = i + 1

\* C14: a bar either opens a trade (only from Flat, leaving the stop at its
\* entry value, the portfolio and the earlier trades alone) or is evaluated
\* for exit, never both; a bar that closes a trade opens none; a trade is
\* closed by the scan only on a bar after its entry bar, and the trade after
\* a Closed one is entered at least one bar after that one's exit.
C14_EntryExitExclusive ==
    /\ [][BarStep =>
            LET opened == Len(trades') = Len(trades) + 1
            IN  /\ ~(opened /\ ClosedOnStep)
                /\ Len(trades') \in {Len(trades), Len(trades) + 1}
                /\ opened =>
                     /\ IsZero(position)
                     /\ trades'[Len(trades')].status = "Open"
                     /\ trades'[Len(trades')].timestamp = i
                     /\ \A k \in 1..Len(trades) : trades'[k] = trades[k]
                     /\ portfolio' = portfolio
                     /\ trailing_stop' \in {RSub(entry_price', atr'),
                                            RAdd(entry_price', atr')}
                /\ NonZero(position) => ~opened
                /\ ClosedOnStep =>
                     /\ IsZero(position')
                     /\ trades[Len(trades)].timestamp < i]_vars
    /\ [](\A k \in 1..(Len(trades) - 1) :
            trades[k].status = "Closed" =>
                trades[k + 1].timestamp >= trades[k].timestamp + 2)

\* a trade entered on bar 0 and closed on bar 1 is followed by one entered
\* on bar 2, the earliest possible
C14_Witness ==
    /\ Len(trades) = 2
    /\ trades[1].status = "Closed"
    /\ trades[1].timestamp = 0
    /\ trades[2].timestamp = 2
    /\ trades[2].status = "Open"
    /\ NonZero(position)
    /\ IsFinite(position)
    /\ i = 3

\* the return of backtest_strategy (forced closure included)
ReturnStep ==
    pc = "loop" /\ pc' = "done"

\* profit of a trade as the specification writes it
SpecProfit(dir, entry, exit, size) ==
    IF dir = "Long" THEN RMul(RSub(exit, entry), size)
    ELSE RMul(RSub(entry, exit), RAbs(size))

\* C15: a trade closed by a bar or by the forced closure gets exit_price =
\* the close of that bar (the last bar for the forced closure) and profit =
\* (exit - entry) x size for Long, (entry - exit) x |size| for Short, entry
\* and size being those set at its entry; that profit is added to the
\* portfolio on the closing step and on no other step.
C15_ClosedTradeValues ==
    /\ [][(BarStep \/ ReturnStep) =>
            IF ClosedOnStep
            THEN LET old == trades[Len(trades)]
                     new == trades'[Len(trades)]
                 IN  /\ new.exit_price = R(lastClose', 1)
                     /\ new.entry_price = old.entry_price
                     /\ new.direction = old.direction
                     /\ new.timestamp = old.timestamp
                     /\ new.profit = SpecProfit(old.direction, old.entry_price,
                                                new.exit_price, position)
                     /\ portfolio' = RAdd(portfolio, new.profit)
            ELSE portfolio' = portfolio]_vars
    /\ [][(BarStep /\ NonZero(position) /\ ~ClosedOnStep) =>
            position' = position /\ entry_price' = entry_price]_vars
    /\ [](NonZero(position) /\ pc = "loop" =>
            /\ Len(trades) >= 1
            /\ trades[Len(trades)].entry_price = entry_price)

\* a Short was closed at a loss by a bar and a Long later by the forced
\* closure
C15_Witness ==
    /\ pc = "done"
    /\ Len(trades) = 2
    /\ trades[1].direction = "Short"
    /\ IsNeg(trades[1].profit)
    /\ IsFinite(trades[1].profit)
    /\ trades[2].direction = "Long"
    /\ trades[2].status = "Closed"
    /\ trades[2].exit_price = R(lastClose, 1)
    /\ IsFinite(trades[2].profit)

\* stop-loss distance of a bar: ATR times the multiplier of its regime
SpecStopLoss(a, close) ==
    LET vf == RDiv(a, close)
    IN  IF Gt(R(1, 100), vf) THEN RMul(a, R(2, 1))
        ELSE IF Gt(vf, R(2, 100)) THEN RMul(a, R(3, 2))
        ELSE RMul(a, R(7, 4))

\* C16: ATR / close < 0.01 gives distances 2 x ATR and 4 x ATR, > 0.02 gives
\* 1.5 x ATR and 3 x ATR, anything else (0.01 and 0.02 included) 1.75 x ATR
\* and 3.5 x ATR; take_profit is twice stop_loss.
C16_RegimeBuckets ==
    pc = "regime_done" =>
        /\ stop_loss = SpecStopLoss(atr, R(lastClose, 1))
        /\ take_profit = SpecTakeProfit(atr, R(lastClose, 1))
        /\ take_profit = RMul(R(2, 1), stop_loss)
        /\ (atr.n * 100 = lastClose \/ atr.n * 100 = 2 * lastClose) =>
              stop_loss = RMul(atr, R(7, 4))

\* the boundary value 0.02 falls in the middle bucket
C16_Witness ==
    /\ pc = "regime_done"
    /\ atr = R(2, 1)
    /\ lastClose = 100
    /\ stop_loss = R(7, 2)
    /\ take_profit = R(7, 1)

\* the step closed a trade and its record reached the ledger
ClosedRecorded ==
    /\ BarStep \/ ReturnStep
    /\ ClosedOnStep
    /\ Len(ledger') = Len(ledger) + 1

\* C17: the Closed record written for a trade closed by an exit or by the
\* forced closure carries the direction, entry_price, exit_price and profit
\* of the in-memory trade after its update, a profit of exactly zero included.
C17_LedgerMirrorsTrade ==
    [][ClosedRecorded =>
        LET rec == ledger'[Len(ledger')]
            tr  == trades'[Len(trades')]
        IN  /\ rec.status = "Closed"
            /\ rec.direction = tr.direction
            /\ rec.entry_price = tr.entry_price
            /\ rec.exit_price = tr.exit_price
            /\ rec.profit = tr.profit]_vars

\* the bar with its signal taken away
NoSignal(b) ==
    [b EXCEPT !.signal = 0]

\* C18: while a position is open the bar's signal has no effect: the bar
\* does what the same close and ATR do without a signal, it appends no trade
\* and does not reverse the position, and entry_price and the size stay as
\* they were at the entry until the trade is closed.
C18_SignalIgnoredWhileHeld ==
    /\ [](pc = "loop" /\ NonZero(position) =>
            \A b \in {x \in Bars : x.signal # 0} :
            \A raised \in {RecordTradeRaises(f) : f \in BOOLEAN} :
                ScanBar(Cur, b, Symbols[symIdx], i, raised, initial_capital)
                  = ScanBar(Cur, NoSignal(b), Symbols[symIdx], i, raised, initial_capital))
    /\ [][HeldStep =>
            /\ Len(trades') = Len(trades)
            /\ entry_price' = entry_price
            /\ position' = position \/ IsZero(position')
            /\ ~ClosedOnStep => position' = position /\ trades' = trades]_vars

\* a position entered on the first bar is still held, with its entry price
\* and trade, after two more bars
C18_Witness ==
    /\ pc = "loop"
    /\ i = 3
    /\ Len(trades) = 1
    /\ trades[1].status = "Open"
    /\ trades[1].timestamp = 0
    /\ IsPos(position)
    /\ IsFinite(position)
    /\ entry_price = trades[1].entry_price
    /\ \E b \in Bars : b.signal = -1 /\ R(b.close, 1) = R(lastClose, 1) /\ R(b.atr, 1) = atr

\* the direction a position's sign stands for
PositionDirection(pos) ==
    IF IsPos(pos) THEN "Long" ELSE IF IsNeg(pos) THEN "Short" ELSE "none"

\* C19: whenever the position is non-Flat during the scan, the last element
\* of the trade list is the Open trade with the position's direction and
\* entry_price and every earlier element is Closed; a Closed trade is never
\* modified again.
C19_LastIsTheOpenTrade ==
    /\ [](pc = "loop" /\ NonZero(position) =>
            /\ Len(trades) >= 1
            /\ trades[Len(trades)].status = "Open"
            /\ trades[Len(trades)].direction = PositionDirection(position)
            /\ trades[Len(trades)].entry_price = entry_price
            /\ \A k \in 1..(Len(trades) - 1) : trades[k].status = "Closed")
    /\ [][(BarStep \/ ReturnStep) =>
            \A k \in ClosedIdx(trades) : k <= Len(trades') /\ trades'[k] = trades[k]]_vars

\* every record_trade call of the run so far has inserted its row
NoWriteFailed ==
    calls = Len(ledger)

OpenRecords(led) ==
    {k \in 1..Len(led) : led[k].status = "Open"}

\* C20: the ledger only grows and keeps its rows; when no write fails its
\* statuses alternate Open, Closed, ..., the k-th trade owns rows 2k-1 (Open,
\* at its entry) and 2k (Closed, at its exit or forced closure), and a run
\* with k trades leaves 2k rows of which k read Open.
C20_LedgerInsertOnly ==
    /\ [][(BarStep \/ ReturnStep) =>
            /\ Len(ledger') >= Len(ledger)
            /\ SubSeq(ledger', 1, Len(ledger)) = ledger]_vars
    /\ [](NoWriteFailed =>
            \A k \in 1..Len(ledger) :
                /\ ledger[k].status = (IF k % 2 = 1 THEN "Open" ELSE "Closed")
                /\ (k + 1) \div 2 <= Len(trades)
                /\ ledger[k].direction = trades[(k + 1) \div 2].direction
                /\ ledger[k].entry_price = trades[(k + 1) \div 2].entry_price)
    /\ [](pc = "done" /\ NoWriteFailed =>
            /\ Len(ledger) = 2 * Len(trades)
            /\ Cardinality(OpenRecords(ledger)) = Len(trades))
====
